---- MODULE Spec2Model ----
(***************************************************************************)
(* BreachGuard (src/app.py): the structural password analyzer, the         *)
(* k-anonymity breach lookup, the /analyze handler that merges the two     *)
(* and the page's displayResults.                                          *)
(*                                                                         *)
(* A string is a sequence of one-character strings.  Floating-point bits   *)
(* of entropy are kept in millionths of a bit (microbits).                 *)
(***************************************************************************)
EXTENDS Integers, Sequences, FiniteSets, TLC

(***************************************************************************)
(* Bounds of the model.                                                    *)
(***************************************************************************)
\* short passwords have every length 0..MaxLen
MaxLen == 13
\* a response body has at most MaxLines lines
MaxLines == 2

(***************************************************************************)
(* Character classes of the regular expressions.                           *)
(***************************************************************************)
Range(s) == {s[i] : i \in 1..Len(s)}

\* the position of c in the sequence s
IndexOf(c, s) == CHOOSE i \in 1..Len(s) : s[i] = c

LowerSeq ==
    <<"a","b","c","d","e","f","g","h","i","j","k","l","m",
      "n","o","p","q","r","s","t","u","v","w","x","y","z">>

UpperSeq ==
    <<"A","B","C","D","E","F","G","H","I","J","K","L","M",
      "N","O","P","Q","R","S","T","U","V","W","X","Y","Z">>

DigitSeq == <<"0","1","2","3","4","5","6","7","8","9">>

\* [a-z]
LowerChars ==
    {"a","b","c","d","e","f","g","h","i","j","k","l","m",
     "n","o","p","q","r","s","t","u","v","w","x","y","z"}

\* [A-Z]
UpperChars ==
    {"A","B","C","D","E","F","G","H","I","J","K","L","M",
     "N","O","P","Q","R","S","T","U","V","W","X","Y","Z"}

\* \d, for the ASCII characters (the inputs hold no other digits)
DigitChars == {"0","1","2","3","4","5","6","7","8","9"}

\* [ !@#$%^&*()_+\-=\[\]{};':\"\\|,.<>\/?]
SymbolChars ==
    {" ","!","@","#","$","%","^","&","*","(",")","_","+","-","=",
     "[","]","{","}",";","'",":","\"","\\","|",",",".","<",">","/","?"}

\* re.search(r"[...]", password) for a character class
re_search(class, password) ==
    \E i \in 1..Len(password) : password[i] \in class

\* re.search(r"[^a-zA-Z\d]", password)
\* a-zA-Z\d
AlnumChars == {c : c \in LowerChars \cup UpperChars \cup DigitChars}

re_search_other(password) ==
    \E i \in 1..Len(password) : password[i] \notin AlnumChars

(***************************************************************************)
(* calculate_entropy and estimate_crack_time.                              *)
(***************************************************************************)
\* floor(10^6 * log2(n)) for n = 1..365
Log2MicroOf ==
    <<0, 1000000, 1584962, 2000000, 2321928, 2584962, 2807354, 3000000,
       3169925, 3321928, 3459431, 3584962, 3700439, 3807354, 3906890, 4000000,
       4087462, 4169925, 4247927, 4321928, 4392317, 4459431, 4523561, 4584962,
       4643856, 4700439, 4754887, 4807354, 4857980, 4906890, 4954196, 5000000,
       5044394, 5087462, 5129283, 5169925, 5209453, 5247927, 5285402, 5321928,
       5357552, 5392317, 5426264, 5459431, 5491853, 5523561, 5554588, 5584962,
       5614709, 5643856, 5672425, 5700439, 5727920, 5754887, 5781359, 5807354,
       5832890, 5857980, 5882643, 5906890, 5930737, 5954196, 5977279, 6000000,
       6022367, 6044394, 6066089, 6087462, 6108524, 6129283, 6149747, 6169925,
       6189824, 6209453, 6228818, 6247927, 6266786, 6285402, 6303780, 6321928,
       6339850, 6357552, 6375039, 6392317, 6409390, 6426264, 6442943, 6459431,
       6475733, 6491853, 6507794, 6523561, 6539158, 6554588, 6569855, 6584962,
       6599912, 6614709, 6629356, 6643856, 6658211, 6672425, 6686500, 6700439,
       6714245, 6727920, 6741466, 6754887, 6768184, 6781359, 6794415, 6807354,
       6820178, 6832890, 6845490, 6857980, 6870364, 6882643, 6894817, 6906890,
       6918863, 6930737, 6942514, 6954196, 6965784, 6977279, 6988684, 7000000,
       7011227, 7022367, 7033423, 7044394, 7055282, 7066089, 7076815, 7087462,
       7098032, 7108524, 7118941, 7129283, 7139551, 7149747, 7159871, 7169925,
       7179909, 7189824, 7199672, 7209453, 7219168, 7228818, 7238404, 7247927,
       7257387, 7266786, 7276124, 7285402, 7294620, 7303780, 7312882, 7321928,
       7330916, 7339850, 7348728, 7357552, 7366322, 7375039, 7383704, 7392317,
       7400879, 7409390, 7417852, 7426264, 7434628, 7442943, 7451211, 7459431,
       7467605, 7475733, 7483815, 7491853, 7499845, 7507794, 7515699, 7523561,
       7531381, 7539158, 7546894, 7554588, 7562242, 7569855, 7577428, 7584962,
       7592457, 7599912, 7607330, 7614709, 7622051, 7629356, 7636624, 7643856,
       7651051, 7658211, 7665335, 7672425, 7679480, 7686500, 7693486, 7700439,
       7707359, 7714245, 7721099, 7727920, 7734709, 7741466, 7748192, 7754887,
       7761551, 7768184, 7774787, 7781359, 7787902, 7794415, 7800899, 7807354,
       7813781, 7820178, 7826548, 7832890, 7839203, 7845490, 7851749, 7857980,
       7864186, 7870364, 7876516, 7882643, 7888743, 7894817, 7900866, 7906890,
       7912889, 7918863, 7924812, 7930737, 7936637, 7942514, 7948367, 7954196,
       7960001, 7965784, 7971543, 7977279, 7982993, 7988684, 7994353, 8000000,
       8005624, 8011227, 8016808, 8022367, 8027905, 8033423, 8038918, 8044394,
       8049848, 8055282, 8060695, 8066089, 8071462, 8076815, 8082149, 8087462,
       8092757, 8098032, 8103287, 8108524, 8113742, 8118941, 8124121, 8129283,
       8134426, 8139551, 8144658, 8149747, 8154818, 8159871, 8164906, 8169925,
       8174925, 8179909, 8184875, 8189824, 8194756, 8199672, 8204571, 8209453,
       8214319, 8219168, 8224001, 8228818, 8233619, 8238404, 8243173, 8247927,
       8252665, 8257387, 8262094, 8266786, 8271463, 8276124, 8280770, 8285402,
       8290018, 8294620, 8299208, 8303780, 8308339, 8312882, 8317412, 8321928,
       8326429, 8330916, 8335390, 8339850, 8344295, 8348728, 8353146, 8357552,
       8361943, 8366322, 8370687, 8375039, 8379378, 8383704, 8388017, 8392317,
       8396604, 8400879, 8405141, 8409390, 8413627, 8417852, 8422064, 8426264,
       8430452, 8434628, 8438791, 8442943, 8447083, 8451211, 8455327, 8459431,
       8463524, 8467605, 8471675, 8475733, 8479780, 8483815, 8487840, 8491853,
       8495855, 8499845, 8503825, 8507794, 8511752 >>

\* math.log2(pool_size), in microbits
Log2Micro(pool_size) == Log2MicroOf[pool_size]

\* what each of the four searches adds to pool_size, in the order lowercase,
\* uppercase, digit, anything else
pool_additions(password) ==
    << IF re_search(LowerChars, password) THEN 26 ELSE 0,
       IF re_search(UpperChars, password) THEN 26 ELSE 0,
       IF re_search(DigitChars, password) THEN 10 ELSE 0,
       IF re_search_other(password) THEN 32 ELSE 0 >>

pool_size_of(password) ==
    LET add == pool_additions(password)
    IN  add[1] + add[2] + add[3] + add[4]

\* entropy in microbits
calculate_entropy(password) ==
    LET pool_size == pool_size_of(password)
    IN  IF pool_size = 0 THEN 0
        ELSE Len(password) * Log2Micro(pool_size)

\* 2 ** entropy is a float power: it raises OverflowError from 2^1024 on
FloatMaxExpMicro == 1024 * 1000000

\* ceil(10^6 * log2(s * 10^11)) for the thresholds s of estimate_crack_time:
\* seconds < s exactly when entropy is below it
MinuteMicro  == 42448100
HourMicro    == 48354991
DayMicro     == 52939953
YearMicro    == 61451706
CenturyMicro == 68095562

OverflowError == [raised |-> TRUE, exc |-> "OverflowError"]

\* the greatest k in lo..hi with 2^entropy / 10^11 >= k units, the unit
\* being 2^unit / 10^11 seconds; lo is such a k
RECURSIVE CountIn(_, _, _, _)
CountIn(entropy, unit, lo, hi) ==
    IF lo = hi THEN lo
    ELSE LET mid == (lo + hi + 1) \div 2
         IN  IF entropy >= unit + Log2MicroOf[mid]
             THEN CountIn(entropy, unit, mid, hi)
             ELSE CountIn(entropy, unit, lo, mid - 1)

\* int(seconds / unit)
int_div(entropy, unit) == CountIn(entropy, unit, 1, Len(Log2MicroOf))

\* the label: its unit and, for f"{int(seconds/unit)} <unit>", its count
Label(unit, count) == [unit |-> unit, count |-> count]

\* the label, or the exception of the float power
estimate_crack_time(entropy) ==
    IF entropy >= FloatMaxExpMicro THEN OverflowError
    ELSE [raised |-> FALSE,
          label  |->
              IF entropy < MinuteMicro THEN Label("Instantly", 0)
              ELSE IF entropy < HourMicro
                   THEN Label("minutes", int_div(entropy, MinuteMicro))
              ELSE IF entropy < DayMicro
                   THEN Label("hours", int_div(entropy, HourMicro))
              ELSE IF entropy < YearMicro
                   THEN Label("days", int_div(entropy, DayMicro))
              ELSE IF entropy < CenturyMicro
                   THEN Label("years", int_div(entropy, YearMicro))
              ELSE Label("Centuries", 0)]

(***************************************************************************)
(* check_password_strength.                                                *)
(***************************************************************************)
\* the points of the two upper tiers exchanged
LengthPoints_swapped(password) ==
    IF Len(password) < 8 THEN 0
    ELSE IF Len(password) >= 12 THEN 1
    ELSE 2

\* the length check's points: 0 below 8, 2 from 12 on, 1 between
LengthPoints(password) ==
    IF Len(password) < 8 THEN 0
    ELSE IF Len(password) >= 12 THEN 2
    ELSE 1

\* the flat policy: one point for a length of 8 or more
RawScore_flat(password) ==
      (IF Len(password) >= 8 THEN 1 ELSE 0)
    + (IF re_search(LowerChars, password) THEN 1 ELSE 0)
    + (IF re_search(UpperChars, password) THEN 1 ELSE 0)
    + (IF re_search(DigitChars, password) THEN 1 ELSE 0)
    + (IF re_search(SymbolChars, password) THEN 1 ELSE 0)

\* the raw score before normalisation
RawScore(password) ==
      LengthPoints(password)
    + (IF re_search(LowerChars, password) THEN 1 ELSE 0)
    + (IF re_search(UpperChars, password) THEN 1 ELSE 0)
    + (IF re_search(DigitChars, password) THEN 1 ELSE 0)
    + (IF re_search(SymbolChars, password) THEN 1 ELSE 0)

Min(a, b) == IF a <= b THEN a ELSE b

\* the raw score returned as it is
NormalizeScore_raw(score) == score

\* final_score = min(5, score - 1) if score > 1 else 0
NormalizeScore(score) ==
    IF score > 1 THEN Min(5, score - 1) ELSE 0

\* the length check off by one: a password of 8 characters is too short
Feedback_offbyone(password) ==
       (IF Len(password) <= 8 THEN <<"Too short (min 8 chars)">> ELSE <<>>)
    \o (IF re_search(LowerChars, password) THEN <<>> ELSE <<"Missing lowercase">>)
    \o (IF re_search(UpperChars, password) THEN <<>> ELSE <<"Missing uppercase">>)
    \o (IF re_search(DigitChars, password) THEN <<>> ELSE <<"Missing numbers">>)
    \o (IF re_search(SymbolChars, password) THEN <<>> ELSE <<"Missing symbols">>)

\* the feedback list, appended to in the order of the checks
Feedback(password) ==
       (IF Len(password) < 8 THEN <<"Too short (min 8 chars)">> ELSE <<>>)
    \o (IF re_search(LowerChars, password) THEN <<>> ELSE <<"Missing lowercase">>)
    \o (IF re_search(UpperChars, password) THEN <<>> ELSE <<"Missing uppercase">>)
    \o (IF re_search(DigitChars, password) THEN <<>> ELSE <<"Missing numbers">>)
    \o (IF re_search(SymbolChars, password) THEN <<>> ELSE <<"Missing symbols">>)

check_password_strength(password) ==
    LET crack_time == estimate_crack_time(calculate_entropy(password))
    IN  IF crack_time.raised THEN crack_time
        ELSE [raised     |-> FALSE,
              score      |-> NormalizeScore(RawScore(password)),
              feedback   |-> Feedback(password),
              crack_time |-> crack_time.label]

(***************************************************************************)
(* String operations used by the breach lookup.                            *)
(***************************************************************************)
\* str.upper()
str_upper(s) ==
    [i \in 1..Len(s) |->
        IF s[i] \in LowerChars THEN UpperSeq[IndexOf(s[i], LowerSeq)] ELSE s[i]]

\* str.lower()
str_lower(s) ==
    [i \in 1..Len(s) |->
        IF s[i] \in UpperChars THEN LowerSeq[IndexOf(s[i], UpperSeq)] ELSE s[i]]

\* the first position >= i of s holding a character of set, or Len(s) + 1
RECURSIVE FindFrom(_, _, _)
FindFrom(s, i, set) ==
    IF i > Len(s) \/ s[i] \in set THEN i ELSE FindFrom(s, i + 1, set)

\* str.splitlines() from position i on: the lines end at "\n", "\r" or "\r\n",
\* and a final line break opens no further line
RECURSIVE SplitLinesFrom(_, _)
SplitLinesFrom(text, i) ==
    IF i > Len(text) THEN <<>>
    ELSE LET j   == FindFrom(text, i, {"\n", "\r"})
             eol == IF j < Len(text) /\ text[j] = "\r" /\ text[j + 1] = "\n"
                    THEN 2 ELSE 1
         IN  <<SubSeq(text, i, j - 1)>> \o SplitLinesFrom(text, j + eol)

splitlines(text) == SplitLinesFrom(text, 1)

\* str.split(sep) from position i on: every occurrence of sep separates
RECURSIVE SplitFrom(_, _, _)
SplitFrom(s, i, sep) ==
    LET j == FindFrom(s, i, {sep})
    IN  IF j > Len(s) THEN <<SubSeq(s, i, Len(s))>>
        ELSE <<SubSeq(s, i, j - 1)>> \o SplitFrom(s, j + 1, sep)

split(s, sep) == SplitFrom(s, 1, sep)

ValueError == [raised |-> TRUE, exc |-> "ValueError"]

Returns(v) == [raised |-> FALSE, value |-> v]

\* str.strip() of blanks
RECURSIVE strip(_)
strip(s) ==
    IF s = <<>> THEN s
    ELSE IF Head(s) = " " THEN strip(Tail(s))
    ELSE IF s[Len(s)] = " " THEN strip(SubSeq(s, 1, Len(s) - 1))
    ELSE s

\* the value of a sequence of decimal digits
RECURSIVE DigitsValue(_)
DigitsValue(s) ==
    IF s = <<>> THEN 0
    ELSE 10 * DigitsValue(SubSeq(s, 1, Len(s) - 1))
         + (IndexOf(s[Len(s)], DigitSeq) - 1)

\* int(count): blanks around, an optional sign, then decimal digits; anything
\* else raises ValueError (the inputs hold no underscores between digits)
int(count) ==
    LET s      == strip(count)
        signed == s # <<>> /\ Head(s) \in {"+", "-"}
        digits == IF signed THEN Tail(s) ELSE s
    IN  IF digits = <<>> \/ ~(Range(digits) \subseteq DigitChars) THEN ValueError
        ELSE Returns(IF signed /\ Head(s) = "-"
                     THEN 0 - DigitsValue(digits) ELSE DigitsValue(digits))

(***************************************************************************)
(* The breach lookup: pwned_api_check, request_pwned_data and              *)
(* get_password_leaks_count.                                               *)
(***************************************************************************)
HexSeq == <<"0","1","2","3","4","5","6","7","8","9","a","b","c","d","e","f">>

\* the characters passwords are made of, one per class of the analyzers and
\* "~", which no class of check_password_strength holds
PasswordChars == <<"a", "B", "7", "!", "~">>

\* a weighted checksum of the characters of s at the positions lo..hi
RECURSIVE Checksum(_, _, _)
Checksum(s, lo, hi) ==
    IF lo > hi THEN 0
    ELSE IF lo = hi THEN (IndexOf(s[lo], PasswordChars) * lo) % 5003
    ELSE LET mid == (lo + hi) \div 2
         IN  (Checksum(s, lo, mid) + Checksum(s, mid + 1, hi)) % 5003

\* hashlib.sha1(password.encode('utf-8')).hexdigest(): 40 lowercase
\* hexadecimal digits that depend on the password alone.  The digest function
\* is the library's; a checksum stands for it, whose leading digits depend on
\* less of the password than the later ones, so that passwords share a
\* 5-digit prefix and differ after it.
sha1_hexdigest(password) ==
    LET k == Checksum(password, 1, Len(password))
    IN  [i \in 1..40 |-> HexSeq[(((k % (i + 1)) * 5 + i) % 16) + 1]]

\* the constant part of the range endpoint's URL, kept as one element
RangeUrl == "https://api.pwnedpasswords.com/range/"

\* first5_char = sha1password[:5]
first5_char(sha1password) == SubSeq(sha1password, 1, 5)

\* tail = sha1password[5:]
tail_of(sha1password) == SubSeq(sha1password, 6, Len(sha1password))

\* request_pwned_data up to requests.get: the outbound GET
request_of(query_char) ==
    [url |-> <<RangeUrl>> \o query_char, timeout |-> 5]

\* sha1password = hashlib.sha1(...).hexdigest().upper()
sha1password_of(password) == str_upper(sha1_hexdigest(password))

\* the whole digest sent instead of its first five digits
pwned_request_whole(sha1password) == request_of(sha1password)

\* the request pwned_api_check sends, given the digest
pwned_request(sha1password) == request_of(first5_char(sha1password))

\* the for loop of get_password_leaks_count over the lines from position i
\* on; each line is split when the loop reaches it, and a line that does not
\* split in two fails the unpacking of "h, count"
RECURSIVE ScanFrom(_, _, _)
ScanFrom(lines, i, hash_to_check) ==
    IF i > Len(lines) THEN Returns(0)
    ELSE LET fields == split(lines[i], ":")
         IN  IF Len(fields) # 2 THEN ValueError
             ELSE IF fields[1] = hash_to_check THEN int(fields[2])
             ELSE ScanFrom(lines, i + 1, hash_to_check)

\* the suffixes compared without regard to case
get_password_leaks_count_nocase(text, hash_to_check) ==
    ScanFrom(splitlines(str_upper(text)), 1, str_upper(hash_to_check))

get_password_leaks_count(text, hash_to_check) ==
    ScanFrom(splitlines(text), 1, hash_to_check)

(***************************************************************************)
(* analyze and displayResults.                                             *)
(***************************************************************************)
NoValue == [none |-> TRUE]

\* the exceptions requests.get raises
Timeout == [raised |-> TRUE, exc |-> "Timeout"]
ConnectionError == [raised |-> TRUE, exc |-> "ConnectionError"]

\* request_pwned_data after requests.get returned res
RuntimeError == [raised |-> TRUE, exc |-> "RuntimeError"]

\* pwned_api_check once requests.get returned res
pwned_api_check_after(res, sha1password) ==
    IF res.status_code # 200 THEN RuntimeError
    ELSE get_password_leaks_count(res.text, tail_of(sha1password))

\* the except branch reporting a count of 0
breach_count_zero(lookup) ==
    IF lookup.raised THEN 0 ELSE lookup.value

\* try: breach_count = pwned_api_check(password)
\* except Exception: breach_count = -1
breach_count_of(lookup) ==
    IF lookup.raised THEN 0 - 1 ELSE lookup.value

\* the JSON body analyze returns
report_of(strength, lookup) ==
    [structure |-> [score      |-> strength.score,
                    feedback   |-> strength.feedback,
                    crack_time |-> strength.crack_time],
     breaches  |-> breach_count_of(lookup)]

\* the class of the score badge
badge_of(score) ==
    IF score >= 4 THEN "emerald" ELSE IF score >= 2 THEN "yellow" ELSE "red"

\* the breach status panel
breachStatus_of(breaches) ==
    IF breaches > 0
    THEN [panel |-> "red", title |-> "LEAKED TIMES", times |-> breaches]
    ELSE [panel |-> "emerald", title |-> "NO BREACHES FOUND", times |-> 0]

displayResults(data) ==
    [scoreBadge   |-> data.structure.score,
     badge        |-> badge_of(data.structure.score),
     crackTime    |-> data.structure.crack_time,
     breachStatus |-> breachStatus_of(data.breaches)]

(***************************************************************************)
(* Inputs: passwords, status codes and response bodies.                    *)
(***************************************************************************)
\* the characters of PasswordChars that are in S, in order, then the last of
\* them repeated up to length L
PasswordOf(S, L) ==
    LET base == SelectSeq(PasswordChars, LAMBDA c : c \in S)
        n    == IF base = <<>> THEN 0
                ELSE IF L > Len(base) THEN L ELSE Len(base)
    IN  [i \in 1..n |-> IF i <= Len(base) THEN base[i] ELSE base[Len(base)]]

\* every set of characters at every length up to MaxLen
ShortPasswords ==
    {PasswordOf(S, L) : S \in SUBSET Range(PasswordChars), L \in 0..MaxLen}

\* passwords around the lengths where 2 ** entropy leaves the floats: 1024
\* bits are 156.2 characters of a pool of 94 and 217.9 of a pool of 26
LongPasswords ==
    {PasswordOf(S, L) : S \in {{"a"}, Range(PasswordChars)},
                        L \in {156, 157, 217, 218}}

AllPasswords == {p : p \in ShortPasswords \cup LongPasswords}

\* the passwords posted to /analyze: the first n characters of PasswordChars
\* at the lengths around the tiers of the length check, and the long ones
AnalyzePasswords ==
    {PasswordOf(Range(SubSeq(PasswordChars, 1, n)), L) :
         n \in 0..Len(PasswordChars), L \in {l \in 0..MaxLen : l % 4 = 0}}
    \cup LongPasswords

StatusCodes == {200, 429, 503}

\* a suffix that differs from tail in its last digit
OtherSuffix(tail) ==
    [tail EXCEPT ![Len(tail)] = IF tail[Len(tail)] = "0" THEN "1" ELSE "0"]

\* the lines of a response, of the kinds that matter to the scan
Lines(tail) ==
    { tail \o <<":", "3">>,
      tail \o <<":", "1", "2">>,
      str_lower(tail) \o <<":", "7">>,
      OtherSuffix(tail) \o <<":", "5">>,
      OtherSuffix(tail) \o <<":", "x">>,
      tail \o <<":", "x">>,
      tail \o <<":", "-", "1">>,
      tail \o <<":", "3", ":", "4">>,
      OtherSuffix(tail),
      <<>> }

RECURSIVE SeqsUpTo(_, _)
SeqsUpTo(S, n) ==
    IF n = 0 THEN {<<>>}
    ELSE LET shorter == SeqsUpTo(S, n - 1)
         IN  shorter \cup {Append(q, x) : q \in shorter, x \in S}

\* the lines joined by "\r\n", as the range endpoint sends them
RECURSIVE JoinLines(_)
JoinLines(lines) ==
    IF lines = <<>> THEN <<>>
    ELSE IF Len(lines) = 1 THEN lines[1]
    ELSE lines[1] \o <<"\r", "\n">> \o JoinLines(Tail(lines))

Bodies(tail) == {JoinLines(lines) : lines \in SeqsUpTo(Lines(tail), MaxLines)}

(***************************************************************************)
(* State.                                                                  *)
(***************************************************************************)
VARIABLES
    pc,             \* where the analysis is: "idle", "requesting" (the GET is
                    \* in flight), "reported" (analyze returned the report),
                    \* "failed" (analyze raised), "displayed", "page_error"
    password,       \* the password posted to /analyze
    strength_data,  \* what check_password_strength returned or raised
    sha1password,   \* the uppercase digest of pwned_api_check
    request,        \* the GET sent to the range endpoint
    response,       \* what requests.get returned
    lookup,         \* what pwned_api_check returned or raised
    report,         \* the JSON body analyze returned
    display,        \* the page after displayResults or the catch branch
    inputs,         \* two passwords analysed independently of each other
    outputs         \* for each of them, the strength result and the request

vars == <<pc, password, strength_data, sha1password, request, response,
          lookup, report, display, inputs, outputs>>

Init ==
    /\ pc = "idle"
    /\ password = NoValue
    /\ strength_data = NoValue
    /\ sha1password = NoValue
    /\ request = NoValue
    /\ response = NoValue
    /\ lookup = NoValue
    /\ report = NoValue
    /\ display = NoValue
    /\ inputs = <<>>
    /\ outputs = <<>>

(***************************************************************************)
(* Actions.                                                                *)
(***************************************************************************)
\* analyze from the POST to the requests.get of pwned_api_check; an exception
\* of check_password_strength leaves analyze
AnalyzeBegin ==
    /\ pc = "idle"
    /\ \E p \in AnalyzePasswords :
           /\ password' = p
           /\ strength_data' = check_password_strength(p)
           /\ IF strength_data'.raised
              THEN /\ pc' = "failed"
                   /\ UNCHANGED <<sha1password, request>>
              ELSE /\ pc' = "requesting"
                   /\ sha1password' = sha1password_of(p)
                   /\ request' = pwned_request(sha1password')
    /\ UNCHANGED <<response, lookup, report, display, inputs, outputs>>

\* requests.get raises: the except branch of analyze, and the report
RequestRaises ==
    /\ pc = "requesting"
    /\ \E exc \in {Timeout, ConnectionError} :
           /\ lookup' = exc
           /\ report' = report_of(strength_data, exc)
    /\ pc' = "reported"
    /\ UNCHANGED <<password, strength_data, sha1password, request,
                   response, display, inputs, outputs>>

\* requests.get returns: the rest of pwned_api_check and of analyze
RequestReturns ==
    /\ pc = "requesting"
    /\ \E status \in StatusCodes :
       \E text \in (IF status = 200 THEN Bodies(tail_of(sha1password))
                                    ELSE {<<>>}) :
           /\ response' = [status_code |-> status, text |-> text]
           /\ lookup' = pwned_api_check_after(response', sha1password)
           /\ report' = report_of(strength_data, lookup')
    /\ pc' = "reported"
    /\ UNCHANGED <<password, strength_data, sha1password, request,
                   display, inputs, outputs>>

\* the page shows the report; it posts no empty password
DisplayResults ==
    /\ pc = "reported"
    /\ password # <<>>
    /\ display' = displayResults(report)
    /\ pc' = "displayed"
    /\ UNCHANGED <<password, strength_data, sha1password, request, response,
                   lookup, report, inputs, outputs>>

\* the page's catch branch: analyze raised, the response is no JSON
PageError ==
    /\ pc = "failed"
    /\ display' = [btn |-> "ERROR"]
    /\ pc' = "page_error"
    /\ UNCHANGED <<password, strength_data, sha1password, request, response,
                   lookup, report, inputs, outputs>>

Next ==
    \/ AnalyzeBegin
    \/ RequestRaises
    \/ RequestReturns
    \/ DisplayResults
    \/ PageError

Spec == Init /\ [][Next]_vars

(***************************************************************************)
(* Two independent analyses, each up to the request it sends.              *)
(***************************************************************************)
\* check_password_strength, and the request of pwned_api_check when it returned
AnalysisOf(p) ==
    LET strength == check_password_strength(p)
        digest   == sha1password_of(p)
    IN  [strength     |-> strength,
         pool         |-> pool_additions(p),
         entropy      |-> calculate_entropy(p),
         sha1password |-> IF strength.raised THEN NoValue ELSE digest,
         request      |-> IF strength.raised THEN NoValue
                          ELSE pwned_request(digest)]

AnalyzeFirst ==
    /\ inputs = <<>>
    /\ \E p \in AllPasswords :
           /\ inputs' = <<p>>
           /\ outputs' = <<AnalysisOf(p)>>
    /\ UNCHANGED <<pc, password, strength_data, sha1password, request,
                   response, lookup, report, display>>

AnalyzeSecond ==
    /\ Len(inputs) = 1
    /\ \E p \in ShortPasswords :
           /\ inputs' = Append(inputs, p)
           /\ outputs' = Append(outputs, AnalysisOf(p))
    /\ UNCHANGED <<pc, password, strength_data, sha1password, request,
                   response, lookup, report, display>>

NextPair == AnalyzeFirst \/ AnalyzeSecond

SpecPair == Init /\ [][NextPair]_vars

(***************************************************************************)
(* Properties of analyze and of the breach lookup (under Spec).            *)
(***************************************************************************)
Has(v) == v # NoValue

\* requests.get raised, or request_pwned_data raised on the status
LookupFailed ==
    /\ Has(lookup)
    /\ lookup.raised
    /\ lookup.exc \in {"Timeout", "ConnectionError", "RuntimeError"}

\* C1: when the breach lookup fails (timeout, connection failure, or a status
\* other than success), analyze still returns a report, no exception leaves
\* it, 'structure' is what check_password_strength computed for the password
\* and 'breaches' is the sentinel -1, never 0.
C1_FailedLookupStillReports ==
    LookupFailed =>
        /\ pc \in {"reported", "displayed"}
        /\ Has(report)
        /\ report.breaches = 0 - 1
        /\ report.structure.score = check_password_strength(password).score
        /\ report.structure.feedback = check_password_strength(password).feedback
        /\ report.structure.crack_time
               = check_password_strength(password).crack_time

C1_Witness ==
    /\ pc = "reported"
    /\ lookup = RuntimeError
    /\ response.status_code = 503
    /\ report.breaches = 0 - 1
    /\ report.structure.score = 5

\* C2: check_password_strength never raises: for every password it returns
\* a result with score, feedback and crack_time, so that analyze always
\* reaches the breach lookup and returns a report.
C2_StrengthNeverRaises ==
    Has(strength_data) =>
        /\ ~strength_data.raised
        /\ pc # "failed"

\* C4: when the breach lookup fails, the page does not show the 'no breaches
\* found' state; that state is shown only for a verified count of 0.
C4_FailureNotShownAsClean ==
    (pc = "displayed" /\ display.breachStatus.title = "NO BREACHES FOUND") =>
        /\ ~lookup.raised
        /\ report.breaches = 0

\* C5: the 'breaches' value of a report is a count >= 0 or the sentinel -1,
\* and it is -1 only when the lookup failed: a response that was fetched and
\* scanned without an exception never yields a negative value.
C5_NegativeOnlyOnFailure ==
    Has(report) =>
        /\ report.breaches >= 0 - 1
        /\ (report.breaches < 0 => lookup.raised)

(***************************************************************************)
(* The scan as the protocol describes it: each line split on its first     *)
(* colon, the suffix compared as it stands.                                *)
(***************************************************************************)
\* the position of the first colon of a line, or Len(line) + 1
FirstColon(line) ==
    IF \E i \in 1..Len(line) : line[i] = ":"
    THEN CHOOSE i \in 1..Len(line) :
             /\ line[i] = ":"
             /\ \A j \in 1..(i - 1) : line[j] # ":"
    ELSE Len(line) + 1

SuffixOf(line) == SubSeq(line, 1, FirstColon(line) - 1)

CountOf(line) == SubSeq(line, FirstColon(line) + 1, Len(line))

\* SUFFIX:COUNT with a count of decimal digits
WellFormed(line) ==
    /\ FirstColon(line) <= Len(line)
    /\ CountOf(line) # <<>>
    /\ \A i \in 1..Len(CountOf(line)) : CountOf(line)[i] \in DigitChars

\* the number a sequence of decimal digits denotes
DecimalValue(digits) ==
    LET val[i \in 0..Len(digits)] ==
            IF i = 0 THEN 0
            ELSE 10 * val[i - 1]
                 + (CHOOSE d \in 0..9 : DigitSeq[d + 1] = digits[i])
    IN  val[Len(digits)]

\* the well-formed lines whose suffix is the local suffix
Matches(lines, suffix) ==
    {i \in 1..Len(lines) : WellFormed(lines[i]) /\ SuffixOf(lines[i]) = suffix}

\* the count of the first well-formed line with the suffix, 0 without one
ExpectedCount(lines, suffix) ==
    IF Matches(lines, suffix) = {} THEN 0
    ELSE LET first == CHOOSE i \in Matches(lines, suffix) :
                          \A j \in Matches(lines, suffix) : i <= j
         IN  DecimalValue(CountOf(lines[first]))

Fetched == Has(response) /\ response.status_code = 200

ResponseLines == splitlines(response.text)

LocalSuffix == tail_of(sha1password)

\* C6: a malformed line (no colon, or a non-numeric count) is skipped and
\* does not abort the scan: the lookup returns the count of the well-formed
\* line with the local suffix wherever malformed lines stand, and 0 when no
\* well-formed line matches.
C6_MalformedLinesSkipped ==
    Fetched =>
        /\ ~lookup.raised
        /\ lookup.value = ExpectedCount(ResponseLines, LocalSuffix)

\* C7: for a response made of SUFFIX:COUNT lines, the lookup returns the
\* count of the first line whose suffix is, case-sensitively, the local
\* suffix, as an integer, and 0 when no line has it (a lowercase rendering
\* of the suffix is no match).
C7_FirstExactMatchCounts ==
    (Fetched /\ \A i \in 1..Len(ResponseLines) : WellFormed(ResponseLines[i])) =>
        /\ ~lookup.raised
        /\ lookup.value = ExpectedCount(ResponseLines, LocalSuffix)
        /\ report.breaches = lookup.value

C7_Witness ==
    /\ Fetched
    /\ Len(ResponseLines) = 2
    /\ WellFormed(ResponseLines[1])
    /\ WellFormed(ResponseLines[2])
    /\ SuffixOf(ResponseLines[1]) # LocalSuffix
    /\ SuffixOf(ResponseLines[1]) = str_lower(LocalSuffix)
    /\ SuffixOf(ResponseLines[2]) = LocalSuffix
    /\ report.breaches = 12

(***************************************************************************)
(* Properties of check_password_strength and of the outbound request,      *)
(* over two analyses (under SpecPair).                                     *)
(***************************************************************************)
\* the analyses that returned a strength result
Returned == {i \in 1..Len(outputs) : ~outputs[i].strength.raised}

\* the uppercase digest of the i-th password
DigestOf(i) == outputs[i].sha1password

\* C3: the only password-derived data in the outbound request is the first
\* 5 characters of the uppercase digest: the URL is the range endpoint
\* followed by them and nothing else, and two passwords whose digests share
\* that prefix send the identical request, whatever their 35-character
\* suffixes.
C3_OnlyPrefixLeaves ==
    /\ \A i \in Returned :
           /\ Len(outputs[i].request.url) = 1 + 5
           /\ Head(outputs[i].request.url) = RangeUrl
           /\ Tail(outputs[i].request.url) = SubSeq(DigestOf(i), 1, 5)
    /\ \A i, j \in Returned :
           SubSeq(DigestOf(i), 1, 5) = SubSeq(DigestOf(j), 1, 5)
               => outputs[i].request = outputs[j].request

C3_Witness ==
    /\ Returned = {1, 2}
    /\ SubSeq(DigestOf(1), 1, 5) = SubSeq(DigestOf(2), 1, 5)
    /\ SubSeq(DigestOf(1), 6, 40) # SubSeq(DigestOf(2), 6, 40)
    /\ DigestOf(1)[6] # DigestOf(2)[6]
    /\ outputs[1].request = outputs[2].request

\* C8: the score check_password_strength returns is an integer from 0 to 5.
C8_ScoreInRange ==
    \A i \in Returned : outputs[i].strength.score \in 0..5

C8_Witness ==
    /\ Returned = {1, 2}
    /\ outputs[1].strength.score = 0
    /\ outputs[2].strength.score = 5

\* the five criteria, in the order length, lowercase, uppercase, digit,
\* symbol: TRUE where the password meets the criterion
Criteria(p) ==
    << Len(p) >= 8,
       \E i \in DOMAIN p : p[i] \in LowerChars,
       \E i \in DOMAIN p : p[i] \in UpperChars,
       \E i \in DOMAIN p : p[i] \in DigitChars,
       \E i \in DOMAIN p : p[i] \in SymbolChars >>

Advisories ==
    << "Too short (min 8 chars)", "Missing lowercase", "Missing uppercase",
       "Missing numbers", "Missing symbols" >>

Satisfied(p) == LET c == Criteria(p) IN {k \in 1..5 : c[k]}

\* the advisories of the unmet criteria, in order
Unmet(p) ==
    LET c == Criteria(p)
        pick(k) == IF c[k] THEN <<>> ELSE <<Advisories[k]>>
    IN  pick(1) \o pick(2) \o pick(3) \o pick(4) \o pick(5)

\* C9: the feedback list is exactly the advisory strings of the unmet
\* criteria, one per unmet criterion and none for a satisfied one, in the
\* order length, lowercase, uppercase, digit, symbol; its length is 5 minus
\* the number of satisfied criteria, and the empty password has all five.
C9_FeedbackIsUnmetCriteria ==
    \A i \in Returned :
        /\ outputs[i].strength.feedback = Unmet(inputs[i])
        /\ Len(outputs[i].strength.feedback)
               = 5 - Cardinality(Satisfied(inputs[i]))
        /\ (inputs[i] = <<>> => outputs[i].strength.feedback = Advisories)

C9_Witness ==
    /\ Returned = {1, 2}
    /\ inputs[1] = <<>>
    /\ Len(outputs[1].strength.feedback) = 5
    /\ Len(inputs[2]) = 8
    /\ outputs[2].strength.feedback = <<"Missing uppercase", "Missing symbols">>

\* the tier of the length check: 0 below 8, 1 for 8 to 11, 2 from 12 on
Tier(p) == IF Len(p) < 8 THEN 0 ELSE IF Len(p) <= 11 THEN 1 ELSE 2

\* C10: the score is monotonically non-decreasing in the satisfied criteria:
\* when the criteria the first password satisfies are among those the second
\* satisfies and the second is in the same or a higher length tier, the
\* first's score is at most the second's.
C10_ScoreMonotone ==
    (/\ Returned = {1, 2}
     /\ Satisfied(inputs[1]) \subseteq Satisfied(inputs[2])
     /\ Tier(inputs[1]) <= Tier(inputs[2]))
        => outputs[1].strength.score <= outputs[2].strength.score

C10_Witness ==
    /\ Returned = {1, 2}
    /\ Satisfied(inputs[1]) \subseteq Satisfied(inputs[2])
    /\ Satisfied(inputs[1]) # Satisfied(inputs[2])
    /\ Tier(inputs[1]) = 1
    /\ Tier(inputs[2]) = 2
    /\ outputs[1].strength.score = 2
    /\ outputs[2].strength.score = 5

\* the raw score of the tiered policy: 0, 1 or 2 points for the length and
\* one point for each class present
TieredRaw(p) ==
    LET c == Criteria(p)
        point(k) == IF c[k] THEN 1 ELSE 0
    IN  Tier(p) + point(2) + point(3) + point(4) + point(5)

\* C11: the score is the tiered-normalized one: min(5, raw - 1) if raw > 1,
\* else 0, with raw the tier points (0 below 8, 1 for 8 to 11, 2 from 12 on)
\* plus one point per class present; so the score is 5 exactly when the
\* length is >= 12 with all four classes, a password of length 8-11 with all
\* four classes scores 4, and a raw score <= 1 gives 0.
C11_TieredNormalizedScore ==
    \A i \in Returned :
        LET raw   == TieredRaw(inputs[i])
            score == outputs[i].strength.score
        IN  /\ raw > 1 => score = (IF raw - 1 < 5 THEN raw - 1 ELSE 5)
            /\ raw <= 1 => score = 0
            /\ score = 5 <=> (Len(inputs[i]) >= 12
                              /\ Satisfied(inputs[i]) = 1..5)
            /\ (Tier(inputs[i]) = 1 /\ Satisfied(inputs[i]) = 1..5)
                   => score = 4

C11_Witness ==
    /\ Returned = {1, 2}
    /\ Len(inputs[1]) = 10
    /\ Satisfied(inputs[1]) = 1..5
    /\ outputs[1].strength.score = 4
    /\ Len(inputs[2]) = 8
    /\ TieredRaw(inputs[2]) = 1
    /\ outputs[2].strength.score = 0

\* the advisories check_password_strength reported for the i-th password
Reported(i) == Range(outputs[i].strength.feedback)

\* C12: calculate_entropy adds 32 to the pool exactly when the password has
\* a symbol in the sense of criterion 5, that is when "Missing symbols" is
\* not reported, and likewise 26, 26 and 10 exactly when lowercase,
\* uppercase and digit are not reported missing; the entropy is 0 exactly
\* when no class is present.
C12_PoolFollowsCriteria ==
    \A i \in Returned :
        /\ outputs[i].pool[1] = 26 <=> "Missing lowercase" \notin Reported(i)
        /\ outputs[i].pool[2] = 26 <=> "Missing uppercase" \notin Reported(i)
        /\ outputs[i].pool[3] = 10 <=> "Missing numbers" \notin Reported(i)
        /\ outputs[i].pool[4] = 32 <=> "Missing symbols" \notin Reported(i)
        /\ outputs[i].entropy = 0 <=> Satisfied(inputs[i]) \cap (2..5) = {}

\* the part of C12 about lowercase, uppercase and digits
C12_LettersAndDigitsFollowCriteria ==
    \A i \in Returned :
        /\ outputs[i].pool[1] = 26 <=> "Missing lowercase" \notin Reported(i)
        /\ outputs[i].pool[2] = 26 <=> "Missing uppercase" \notin Reported(i)
        /\ outputs[i].pool[3] = 10 <=> "Missing numbers" \notin Reported(i)
        /\ "Missing symbols" \notin Reported(i) => outputs[i].pool[4] = 32

\* the labels in the order of their severity
Units == <<"Instantly", "minutes", "hours", "days", "years", "Centuries">>

Severity(label) == IndexOf(label.unit, Units)

\* the thresholds below which a label of each unit is given, Instantly first
UnitBelow == <<MinuteMicro, HourMicro, DayMicro, YearMicro, CenturyMicro>>

\* the label of the thresholds: the first unit whose threshold the entropy
\* is below, Centuries when it is below none
ThresholdUnit(entropy) ==
    IF \A k \in 1..5 : entropy >= UnitBelow[k] THEN "Centuries"
    ELSE Units[CHOOSE k \in 1..5 :
                   /\ entropy < UnitBelow[k]
                   /\ \A j \in 1..(k - 1) : entropy >= UnitBelow[j]]

\* a numeric label's count is the floor of the seconds over the unit, and at
\* least 1
FlooredCount(entropy, label) ==
    label.unit \in {"minutes", "hours", "days", "years"} =>
        LET unit == UnitBelow[Severity(label) - 1]
        IN  /\ label.count >= 1
            /\ entropy >= unit + Log2MicroOf[label.count]
            /\ entropy < unit + Log2MicroOf[label.count + 1]

\* the label of the i-th analysis agrees with the thresholds
LabelOfThresholds(i) ==
    LET label == outputs[i].strength.crack_time
    IN  /\ label.unit = ThresholdUnit(outputs[i].entropy)
        /\ FlooredCount(outputs[i].entropy, label)
        /\ (outputs[i].entropy = 0 => label.unit = "Instantly")

\* a larger entropy never has a less severe label
SeverityMonotone(I) ==
    \A i, j \in I :
        outputs[i].entropy <= outputs[j].entropy
            => Severity(outputs[i].strength.crack_time)
                   <= Severity(outputs[j].strength.crack_time)

\* C13: estimate_crack_time maps every entropy to a label by the ascending
\* thresholds (Instantly, minutes, hours, days, years, else Centuries) with
\* the count floored and at least 1; the label is a function of the entropy,
\* non-decreasing in severity, and entropy 0 gives Instantly.
C13_LabelMonotoneInEntropy ==
    /\ \A i \in 1..Len(outputs) : ~outputs[i].strength.raised
    /\ \A i \in 1..Len(outputs) : LabelOfThresholds(i)
    /\ SeverityMonotone(1..Len(outputs))

\* C13 for the entropies below 1024 bits, where 2 ** entropy is a float
C13_LabelMonotoneBelowFloatRange ==
    /\ \A i \in Returned : LabelOfThresholds(i)
    /\ SeverityMonotone(Returned)

====
